---- MODULE Spec2Model ----
(***************************************************************************)
(* BatchedSink (src/batchedSink.ts): an in-memory buffer of log events     *)
(* that is drained to an inner sink by a self-rearming timer, by flush()   *)
(* or by an emit() that overflows maxSize, mirrored into an optional       *)
(* durable Storage and rehydrated from it by the constructor.              *)
(*                                                                         *)
(* One action is one JavaScript job: a public call, a timer callback or    *)
(* the settlement of one emitCore promise (its then/catch chain).          *)
(* Log events are opaque; they are modelled by distinct numbers.           *)
(***************************************************************************)
EXTENDS Integers, Sequences, FiniteSets, TLC

\* ------------------------------------------------------------- bounds
MaxEvents == 2       \* number of distinct log events ever created
MaxTime == 1         \* the clock (ms) is read as 0..MaxTime
MaxStale == 2        \* durable entries left behind by an earlier lifetime
ScenarioMaxSize == 3 \* maxSize of the engine of the burst scenario
ScenarioEvents == 5  \* events of its one emit call: more than one batch of
                     \* maxSize, at most two

\* ------------------------------------------------- program constants
DefaultMaxSize == 100
DefaultPeriod == 5

\* defaultBatchedSinkOptions
defaultBatchedSinkOptions ==
    [maxSize |-> DefaultMaxSize, period |-> DefaultPeriod,
     durableStore |-> FALSE]

\* { ...defaultBatchedSinkOptions, ...(options || {}) }
mergeOptions(given) ==
    [f \in DOMAIN defaultBatchedSinkOptions |->
        IF f \in DOMAIN given THEN given[f] ELSE defaultBatchedSinkOptions[f]]

Min(a, b) == IF a < b THEN a ELSE b
Max(a, b) == IF a > b THEN a ELSE b

\* options.maxSize ranges over the sizes the events above can fill (a run of
\* several events within maxSize) and overflow (maxSize below their number)
MaxMaxSize == MaxEvents

durableStorageKey == "serilogger-batched-sink-durable-cache"

VARIABLES
    phase,                 \* "new" before the constructor ran, "ready" after
                           \* it returned, "threw" when it raised, "hung"
                           \* when a call on the engine never returns
    options,               \* [maxSize, period, durableStore]
    innerSink,             \* TRUE when an inner sink was passed
    batchedEvents,         \* the active buffer
    batchTimeout,          \* TRUE while a timer armed by cycleBatch is pending
    batchKey,              \* key of the durable entry mirroring the buffer
    shouldCycleContinue,   \* FALSE once stopCycle was called
    store,                 \* the durable Storage: key -> serialized events
    inflight,              \* the emitCore calls whose promise is unsettled
    nextId,                \* the next fresh log event
    retained,              \* history: keys of the batches whose entry was
                           \* not removed: the accept raised or was
                           \* rejected, or the removal failed
    sinceCycle             \* history: the emit calls since the last cycle

vars == <<phase, options, innerSink, batchedEvents, batchTimeout, batchKey,
          shouldCycleContinue, store, inflight, nextId, retained, sinceCycle>>

\* ------------------------------------------------------------ helpers
Range(s) == {s[i] : i \in DOMAIN s}

\* ceil(a / b) for a >= 0, b > 0
CeilDiv(a, b) == (a + b - 1) \div b

\* Array.prototype.slice(from, to): zero-based indices, a negative one counts
\* from the end, both are clamped to the array
slice(s, from, to) ==
    LET lo == IF from < 0 THEN Max(Len(s) + from, 0) ELSE Min(from, Len(s))
        hi == IF to < 0 THEN Max(Len(s) + to, 0) ELSE Min(to, Len(s))
    IN  [i \in 1..Max(hi - lo, 0) |-> s[lo + i]]

RECURSIVE Flatten(_)
Flatten(ss) == IF ss = <<>> THEN <<>> ELSE Head(ss) \o Flatten(Tail(ss))

\* the events lo, lo+1, ..., lo+n-1 as an array
FreshEvents(lo, n) == [i \in 1..n |-> lo + i - 1]

\* ------------------------------------------------------ durable store
\* keys are strings "<prefix>-<timestamp>"; a key is kept as its two parts
Key(prefix, ts) == [prefix |-> prefix, ts |-> ts]
EmptyKey == Key("", 0)                       \* batchKey: string = ''
ForeignKey == Key("other-app", 0)            \* an entry of another program

\* key.indexOf(this.durableStorageKey) === 0
HasPrefix(key) == key.prefix = durableStorageKey

\* JSON.stringify(LogEvent[]) keeps, for each event, its plain fields and the
\* raw text of its message template
JSONstringify(events) ==
    [i \in DOMAIN events |-> [messageTemplate |-> [raw |-> events[i]]]]

\* JSON.parse(...).map(e => { e.messageTemplate = new MessageTemplate(raw) })
ParseStored(value) == [i \in DOMAIN value |-> value[i].messageTemplate.raw]

setItem(st, key, value) ==
    [k \in DOMAIN st \cup {key} |-> IF k = key THEN value ELSE st[k]]

removeItem(st, key) == [k \in DOMAIN st \ {key} |-> st[k]]

\* the number NaN, kept apart from every period: it is below all of them and
\* no comparison with it holds
NaN == 0 - 1000

\* isNaN(x)
isNaN(x) == x = NaN

\* mutant: every period arms the timer
PeriodValid_always == TRUE

\* !isNaN(period) && period > 0
PeriodValid == ~isNaN(options.period) /\ options.period > 0

\* ---------------------------------------------------------- the engine
\* The mutable fields a job works on, threaded through the calls it makes.
\*   now    : new Date().getTime(). The clock is read only to stamp a new
\*            batchKey, so all that is known of it between two readings is
\*            that it has not gone back: a job starts at the time stamped on
\*            the current key and the clock may move on before each reading
\*   threw  : an exception is propagating out of the job
\*   hangs  : the job is in a loop it never leaves
\*   cycles : the cycleBatch calls made so far by the job
\*   batches: the arrays the job has passed to emitCore, in call order
\* (cycles and batches are read by the properties of a job, not by the code)
Engine ==
    [batchedEvents |-> batchedEvents, batchTimeout |-> batchTimeout,
     batchKey |-> batchKey, shouldCycleContinue |-> shouldCycleContinue,
     store |-> store, inflight |-> inflight, now |-> batchKey.ts,
     threw |-> FALSE, hangs |-> FALSE, cycles |-> 0, batches |-> <<>>]

\* private storeEvents()
storeEvents(e) ==
    IF options.durableStore
    THEN [e EXCEPT !.store =
              setItem(e.store, e.batchKey, JSONstringify(e.batchedEvents))]
    ELSE e

\* the batchKey assigned at the end of a cycle (line 136)
NewBatchKey(e) == Key(durableStorageKey, e.now)

\* mutant: the halt flag is not consulted
Halted_ignored(e) == FALSE

\* the guard of line 118
Halted(e) == ~e.shouldCycleContinue

\* protected cycleBatch(); sinkThrows: the inner sink's emit raises
\* synchronously in this call
cycleBatch(e, sinkThrows) ==
    LET e0 == [e EXCEPT !.batchTimeout = FALSE, !.cycles = @ + 1]
        processEvents == e0.batchedEvents
        previousBatchKey == e0.batchKey
        call == [events |-> processEvents, key |-> previousBatchKey]
        raises == innerSink /\ sinkThrows
        e1 == IF processEvents # <<>>
              THEN [e0 EXCEPT !.batchedEvents = <<>>,
                              !.batches = Append(@, processEvents),
                              !.inflight = IF raises THEN @ ELSE @ \cup {call},
                              !.threw = raises]
              ELSE e0
    IN  IF Halted(e0) THEN e0
        ELSE IF e1.threw THEN e1
        ELSE [e1 EXCEPT !.batchKey = NewBatchKey(e1),
                        !.batchTimeout = PeriodValid]

\* a millisecond passes, within the span of time the model follows
tick(e) == [e EXCEPT !.now = Min(@ + 1, MaxTime)]

\* the loop of emit (lines 77-83): k numbers the forced cycle about to run,
\* ticks are the forced cycles before which the clock moved on by a
\* millisecond, throwAt is the forced cycle in which the sink raises (0: none).
\* With a maxSize of zero or less the cursor does not advance: every further
\* iteration finds cursor < events.length again, with an empty buffer, and
\* the loop is never left.
RECURSIVE emitLoop(_, _, _, _, _, _)
emitLoop(e, events, cursor, k, ticks, throwAt) ==
    IF ~(cursor < Len(events)) THEN e
    ELSE LET e0 == IF k \in ticks THEN tick(e) ELSE e
             e1 == cycleBatch(e0, throwAt = k)
             e2 == [e1 EXCEPT !.batchedEvents =
                        @ \o slice(events, cursor, cursor + options.maxSize)]
         IN  IF e1.threw THEN e1
             ELSE IF cursor + options.maxSize <= cursor
             THEN [storeEvents(e2) EXCEPT !.hangs = TRUE]
             ELSE emitLoop(storeEvents(e2), events,
                           cursor + options.maxSize, k + 1, ticks, throwAt)

\* mutant: an overflowing emit starts its first slice at a full buffer
firstCursor_full(e) == 0

\* the first slice of an overflowing emit (lines 71-74)
firstCursor(e) ==
    IF options.maxSize - Len(e.batchedEvents) < 0
    THEN 0
    ELSE options.maxSize - Len(e.batchedEvents)

\* mutant: an emit that fits is put in front of the buffer
emit_prepends(e, events, ticks, throwAt) ==
    IF Len(e.batchedEvents) + Len(events) <= options.maxSize
    THEN storeEvents([e EXCEPT !.batchedEvents = events \o @])
    ELSE LET cursor == firstCursor(e)
             e1 == [e EXCEPT !.batchedEvents = @ \o slice(events, 0, cursor)]
         IN  emitLoop(storeEvents(e1), events, cursor, 1, ticks, throwAt)

\* emit(events)
emit(e, events, ticks, throwAt) ==
    IF Len(e.batchedEvents) + Len(events) <= options.maxSize
    THEN storeEvents([e EXCEPT !.batchedEvents = @ \o events])
    ELSE LET cursor == firstCursor(e)
             e1 == [e EXCEPT !.batchedEvents = @ \o slice(events, 0, cursor)]
         IN  emitLoop(storeEvents(e1), events, cursor, 1, ticks, throwAt)

\* the orders in which `for (const key in durableStore)` may yield the keys
KeyOrders(st) ==
    {o \in [1..Cardinality(DOMAIN st) -> DOMAIN st] :
        \A i, j \in DOMAIN o : i # j => o[i] # o[j]}

\* mutant: the entries read are left in the store
RECURSIVE rehydrate_keepsEntries(_, _, _)
rehydrate_keepsEntries(order, initialBatch, st) ==
    IF order = <<>> THEN [initialBatch |-> initialBatch, store |-> st]
    ELSE LET key == Head(order)
         IN  rehydrate_keepsEntries(Tail(order),
                IF HasPrefix(key) THEN initialBatch \o ParseStored(st[key])
                                  ELSE initialBatch,
                st)

\* the rehydration loop of the constructor (lines 48-60): the events read so
\* far and the store left behind
RECURSIVE rehydrate(_, _, _)
rehydrate(order, initialBatch, st) ==
    IF order = <<>> THEN [initialBatch |-> initialBatch, store |-> st]
    ELSE LET key == Head(order)
         IN  IF HasPrefix(key)
             THEN rehydrate(Tail(order),
                            initialBatch \o ParseStored(st[key]),
                            removeItem(st, key))
             ELSE rehydrate(Tail(order), initialBatch, st)

\* constructor(innerSink, options)
constructor(e, order, ticks, throwAt) ==
    LET e1 == [cycleBatch([e EXCEPT !.batchedEvents = <<>>], FALSE)
                  EXCEPT !.cycles = 0]
        r  == rehydrate(order, <<>>, e1.store)
    IN  IF options.durableStore
        THEN emit([e1 EXCEPT !.store = r.store], r.initialBatch, ticks, throwAt)
        ELSE e1

\* mutant: the entry of an accepted batch is left in the store
onResolved_keepsEntry(e, call) == e

\* the .then handler of line 126: the entry of the batch is removed
onResolved(e, call) ==
    IF options.durableStore
    THEN [e EXCEPT !.store = removeItem(@, call.key)]
    ELSE e

\* the .catch handler of line 131
onRejected(e, call) == [e EXCEPT !.batchedEvents = call.events \o @]

\* what the then/catch chain of one emitCore promise does (lines 125-133)
\*   resolves    : the promise resolved (always, when emitCore returned no
\*                 promise)
\*   removeThrows: durableStore.removeItem raised, or returned a rejection
settle(e, call, resolves, removeThrows) ==
    LET e0 == [e EXCEPT !.inflight = @ \ {call}]
    IN  IF resolves /\ ~(options.durableStore /\ removeThrows)
        THEN onResolved(e0, call)
        ELSE onRejected(e0, call)

\* flush(): the cycle it forces (the promise it returns is flushCore's)
flush(e, sinkThrows) == cycleBatch(e, sinkThrows)

\* what innerSink.flush() may do: return a promise that resolves or one that
\* rejects, return a value that is no promise, or raise
SinkFlushes == {"resolved", "rejected", "value", "raised"}

\* protected flushCore(): the inner sink's flush, or Promise.resolve()
flushCore(sinkFlush) == IF innerSink THEN sinkFlush ELSE "resolved"

\* what the caller of flush() gets (lines 90-92): the exception of the cycle
\* or of flushCore ("raised"), else flushCore's promise when it is one, else
\* Promise.resolve()
flushSignal(e, sinkThrows, sinkFlush) ==
    LET corePromise == flushCore(sinkFlush)
    IN  IF flush(e, sinkThrows).threw THEN "raised"
        ELSE IF corePromise \in {"resolved", "rejected", "raised"}
             THEN corePromise
             ELSE "resolved"

\* mutant: the pending timer is not cleared
stopCycle_keepsTimer(e) == [e EXCEPT !.shouldCycleContinue = FALSE]

\* stopCycle()
stopCycle(e) ==
    [e EXCEPT !.shouldCycleContinue = FALSE, !.batchTimeout = FALSE]

\* ------------------------------------------------------ initial state
\* the periods that arm no timer: zero, a negative number, NaN
DisabledPeriods == {0, 0 - 1, NaN}

\* the options a caller passes: maxSize small enough for buffers to overflow,
\* period left out (the default) or one that arms no timer, with or without
\* a store
GivenOptions ==
    {[maxSize |-> m, durableStore |-> d] :
        m \in 1..MaxMaxSize, d \in BOOLEAN}
    \cup {[maxSize |-> m, period |-> 0, durableStore |-> d] :
        m \in 1..MaxMaxSize, d \in BOOLEAN}
    \cup {[maxSize |-> m, period |-> p, durableStore |-> FALSE] :
        m \in 1..MaxMaxSize, p \in DisabledPeriods}

EmptyStore == [k \in {} |-> <<>>]

\* keys written by an earlier lifetime of the program: their timestamps lie
\* before the clock of this one, which starts at 0
StaleKey(j) == Key(durableStorageKey, 0 - j)

\* a store holding n stale entries, the j-th with the next lens[j] events,
\* beside one entry of another program
RECURSIVE StaleStore(_, _, _)
StaleStore(n, lens, first) ==
    IF n = 0
    THEN setItem(EmptyStore, ForeignKey, JSONstringify(<<0>>))
    ELSE setItem(StaleStore(n - 1, lens, first + lens[n]),
                 StaleKey(n), JSONstringify(FreshEvents(first, lens[n])))

RECURSIVE Sum(_, _)
Sum(f, n) == IF n = 0 THEN 0 ELSE f[n] + Sum(f, n - 1)

\* sinceCycle.run tells what happened to the buffer since the last cycle:
\*   "none"     no emit call yet
\*   "clean"    emit calls only, the first of which found the buffer empty
\*   "requeued" as "clean", and then a settlement put a batch back
\*   "other"    anything else
\*   "drained"  as "none", and the last job was a cycle that followed "clean"
\* and sinceCycle.start is the first event emitted since that cycle
Run(state, first) == [run |-> state, start |-> first]

\* the state before the constructor runs, for the options a caller may give
InitWith(Given) ==
    /\ phase = "new"
    /\ \E given \in Given : options = mergeOptions(given)
    /\ innerSink \in (IF options.durableStore THEN {TRUE} ELSE BOOLEAN)
    /\ batchedEvents = <<>>
    /\ batchTimeout = FALSE
    /\ batchKey = EmptyKey
    /\ shouldCycleContinue = TRUE
    /\ inflight = {}
    /\ retained = {}
    /\ IF options.durableStore
       THEN \E n \in 0..MaxStale : \E lens \in [1..n -> 0..MaxMaxSize] :
               /\ Sum(lens, n) <= MaxEvents
               /\ store = StaleStore(n, lens, 1)
               /\ nextId = 1 + Sum(lens, n)
       ELSE store = EmptyStore /\ nextId = 1
    /\ sinceCycle = Run("none", nextId)

Init == InitWith(GivenOptions)

\* ------------------------------------------------------------ actions
\* the fields of the engine after a job
Becomes(e) ==
    /\ batchedEvents' = e.batchedEvents
    /\ batchTimeout' = e.batchTimeout
    /\ batchKey' = e.batchKey
    /\ shouldCycleContinue' = e.shouldCycleContinue
    /\ store' = e.store
    /\ inflight' = e.inflight

SinkThrows == IF innerSink THEN BOOLEAN ELSE {FALSE}

\* a job in which the sink raised leaves the entry of that batch behind
Retains(e) ==
    retained' = IF options.durableStore /\ e.threw
                THEN retained \cup {e.batchKey} ELSE retained

\* new BatchedSink(innerSink, options)
Construct ==
    /\ phase = "new"
    /\ \E order \in KeyOrders(store) :
       \E ticks \in SUBSET (1..MaxEvents) :
       \E throwAt \in 0..(IF innerSink THEN MaxEvents ELSE 0) :
          LET e == constructor(Engine, order, ticks, throwAt)
          IN  /\ Becomes(e)
              /\ phase' = IF e.hangs THEN "hung"
                           ELSE IF e.threw THEN "threw" ELSE "ready"
              /\ sinceCycle' = Run(IF e.batchedEvents = <<>>
                                    THEN "none" ELSE "other", nextId)
              /\ Retains(e)
    /\ UNCHANGED <<options, innerSink, nextId>>

\* sink.emit(events) with n fresh events
Emit ==
    /\ phase = "ready"
    /\ \E n \in 0..(MaxEvents + 1 - nextId) :
       \E ticks \in SUBSET (1..n) :
       \E throwAt \in 0..(IF innerSink THEN n ELSE 0) :
          LET e == emit(Engine, FreshEvents(nextId, n), ticks, throwAt)
          IN  /\ Becomes(e)
              /\ phase' = IF e.hangs THEN "hung" ELSE phase
              /\ nextId' = nextId + n
              /\ sinceCycle' =
                    IF e.cycles > 0 /\ shouldCycleContinue
                    THEN Run("other", nextId + n)
                    ELSE IF sinceCycle.run \in {"none", "drained"}
                    THEN Run(IF batchedEvents = <<>>
                             THEN "clean" ELSE "other", nextId)
                    ELSE sinceCycle
              /\ Retains(e)
    /\ UNCHANGED <<options, innerSink>>

\* what a cycle outside emit leaves behind
Cycled(e) ==
           /\ Becomes(e)
           /\ sinceCycle' =
                 IF ~shouldCycleContinue THEN sinceCycle
                 ELSE Run(IF sinceCycle.run = "clean"
                          THEN "drained" ELSE "none", nextId)
           /\ Retains(e)
           /\ UNCHANGED <<phase, options, innerSink, nextId>>

\* the engine when a job starts: a millisecond may have passed
Started == {Engine, tick(Engine)}

\* the callback armed by setTimeout(() => this.cycleBatch(), period * 1000)
TimerFire ==
    /\ phase \in {"ready", "threw"}
    /\ batchTimeout
    /\ \E sinkThrows \in SinkThrows, e \in Started :
          Cycled(cycleBatch(e, sinkThrows))

\* sink.flush()
Flush ==
    /\ phase = "ready"
    /\ \E sinkThrows \in SinkThrows, e \in Started :
          Cycled(flush(e, sinkThrows))

\* sink.stopCycle()
Stop ==
    /\ phase = "ready"
    /\ Becomes(stopCycle(Engine))
    /\ UNCHANGED <<phase, options, innerSink, nextId, retained,
                   sinceCycle>>

\* the promise of one emitCore call settles and its then/catch chain runs
Settle ==
    /\ phase \in {"ready", "threw"}
    /\ \E call \in inflight :
       \E resolves \in (IF innerSink THEN BOOLEAN ELSE {TRUE}) :
       \E removeThrows \in (IF options.durableStore /\ resolves
                            THEN BOOLEAN ELSE {FALSE}) :
          LET e == settle(Engine, call, resolves, removeThrows)
          IN  /\ Becomes(e)
              /\ retained' = IF options.durableStore
                                /\ (~resolves \/ removeThrows)
                             THEN retained \cup {call.key}
                             ELSE retained
              /\ sinceCycle' =
                    IF sinceCycle.run = "drained"
                    THEN Run("none", sinceCycle.start)
                    ELSE IF sinceCycle.run = "clean"
                            /\ e.batchedEvents # batchedEvents
                    THEN Run("requeued", sinceCycle.start)
                    ELSE sinceCycle
    /\ UNCHANGED <<phase, options, innerSink, nextId>>

Next == Construct \/ Emit \/ TimerFire \/ Flush \/ Stop \/ Settle

Spec == Init /\ [][Next]_vars

\* ------------------------------------------------- the burst scenario
\* A new engine with maxSize = ScenarioMaxSize and no timer, given one emit
\* call of ScenarioEvents events, then flushed.
ScenarioInit ==
    /\ phase = "new"
    /\ \E p \in DisabledPeriods, d \in BOOLEAN :
          options = mergeOptions([maxSize |-> ScenarioMaxSize, period |-> p,
                                  durableStore |-> d])
    /\ innerSink \in BOOLEAN
    /\ batchedEvents = <<>>
    /\ batchTimeout = FALSE
    /\ batchKey = EmptyKey
    /\ shouldCycleContinue = TRUE
    /\ inflight = {}
    /\ retained = {}
    /\ store = IF options.durableStore THEN StaleStore(0, <<>>, 1)
               ELSE EmptyStore
    /\ nextId = 1
    /\ sinceCycle = Run("none", nextId)

\* sink.emit([e1, ..., eN]) with N = ScenarioEvents, on the new engine
ScenarioEmit ==
    /\ phase = "ready"
    /\ nextId = 1
    /\ \E ticks \in SUBSET (1..2) :
       \E throwAt \in 0..(IF innerSink THEN 2 ELSE 0) :
          LET e == emit(Engine, FreshEvents(nextId, ScenarioEvents),
                        ticks, throwAt)
          IN  /\ Becomes(e)
              /\ nextId' = nextId + ScenarioEvents
              /\ sinceCycle' = Run("other", nextId + ScenarioEvents)
              /\ Retains(e)
    /\ UNCHANGED <<phase, options, innerSink>>

ScenarioNext == Construct \/ ScenarioEmit \/ Flush \/ Settle

ScenarioSpec == ScenarioInit /\ [][ScenarioNext]_vars

\* ============================================================ properties
\* ---------------------------------------------- engines of any maxSize
\* maxSize is not validated: the options above, and those with a maxSize of
\* zero or below
AnySizeOptions ==
    GivenOptions
    \cup {[maxSize |-> m, durableStore |-> d] :
            m \in {0, 0 - 1}, d \in BOOLEAN}

AnySizeInit == InitWith(AnySizeOptions)

AnySizeSpec == AnySizeInit /\ [][Next]_vars

\* A property of a job is stated on the state the job starts in: whatever
\* the inputs and the behaviour of the sink and of the store, the engine the
\* job leaves behind is as described.

\* the arrays emit may be given in this state, the clock readings and the
\* forced cycle in which the sink may raise
Inputs == 0..(MaxEvents + 1 - nextId)
Ticks(n) == SUBSET (1..n)
Throws(n) == 0..(IF innerSink THEN n ELSE 0)

\* the events of the entries kept under the engine's prefix
StoredEvents(st) ==
    UNION {Range(ParseStored(st[k])) : k \in {x \in DOMAIN st : HasPrefix(x)}}

\* how often an event occurs in an array
Count(s, ev) == Cardinality({i \in DOMAIN s : s[i] = ev})

IsPrefix(p, s) == Len(p) <= Len(s) /\ \A i \in DOMAIN p : p[i] = s[i]

\* ----------------------------------------------------------------- C1
\* C1: every batch handed to the sink's accept operation holds at most
\* maxSize events.
C1_BatchWithinMaxSize ==
    innerSink => \A call \in inflight : Len(call.events) <= options.maxSize

\* ----------------------------------------------------------------- C2
\* C2: an emit that exceeds the remaining capacity dispatches batches of at
\* most maxSize events each (the slice it leaves in the buffer for the next
\* cycle included), which together are the buffered events followed by the
\* input, in order, and it forces ceil(overflow / maxSize) cycles. Stated for
\* an engine that was not halted and a sink that does not raise.
C2_OverflowSplit ==
    (phase = "ready" /\ shouldCycleContinue) =>
        \A n \in Inputs : \A ticks \in Ticks(n) :
            LET events == FreshEvents(nextId, n)
                e == emit(Engine, events, ticks, 0)
                remaining == Max(0, options.maxSize - Len(batchedEvents))
                overflow == n - Min(n, remaining)
            IN  Len(batchedEvents) + n > options.maxSize =>
                   /\ \A i \in DOMAIN e.batches :
                         Len(e.batches[i]) <= options.maxSize
                   /\ Len(e.batchedEvents) <= options.maxSize
                   /\ Flatten(e.batches) \o e.batchedEvents
                         = batchedEvents \o events
                   /\ Len(e.batches) = CeilDiv(overflow, options.maxSize)

\* ----------------------------------------------------------------- C3
\* the events of the emit calls made since the last cycle
EmittedSinceCycle == FreshEvents(sinceCycle.start, nextId - sinceCycle.start)

\* the next cycle hands over exactly the events emitted since the last one,
\* as one batch, and leaves the buffer empty
DrainsEmitted(e) ==
    /\ e.batchedEvents = <<>>
    /\ e.batches = IF EmittedSinceCycle = <<>> THEN <<>>
                   ELSE <<EmittedSinceCycle>>

C4_FailedBatchRequeued ==
    (phase = "ready" /\ innerSink) =>
        /\ \A call \in inflight :
              LET e == settle(Engine, call, FALSE, FALSE)
              IN  /\ e.batchedEvents = call.events \o batchedEvents
                  /\ call.key \in DOMAIN store =>
                        /\ call.key \in DOMAIN e.store
                        /\ e.store[call.key] = store[call.key]
        /\ (shouldCycleContinue /\ batchedEvents # <<>>) =>
              LET e == cycleBatch(Engine, TRUE)
              IN  /\ IsPrefix(batchedEvents, e.batchedEvents)
                  /\ batchKey \in DOMAIN store => batchKey \in DOMAIN e.store

\* ----------------------------------------------------------------- C5
\* C5: a failure of the sink's accept, raised in the call or delivered as a
\* rejection, never reaches the caller of emit nor the timer callback.
C5_FailureNotSurfaced ==
    /\ phase = "ready" =>
          \A n \in Inputs : \A ticks \in Ticks(n) : \A throwAt \in Throws(n) :
             ~emit(Engine, FreshEvents(nextId, n), ticks, throwAt).threw
    /\ (phase # "new" /\ batchTimeout) =>
          \A sinkThrows \in SinkThrows : ~cycleBatch(Engine, sinkThrows).threw

\* ----------------------------------------------------------------- C6
\* C6: with a durable store, between jobs every event that waits for delivery
\* (in the buffer or in a batch in flight) is held by some entry of the
\* store. Stated for the states in which no settlement has failed so far, so
\* that no accepted event is back in the buffer.
C6_PendingEventsStored ==
    (phase = "ready" /\ options.durableStore /\ retained = {}) =>
        \A ev \in Range(batchedEvents)
                  \cup UNION {Range(call.events) : call \in inflight} :
            ev \in StoredEvents(store)

Orphans == {k \in DOMAIN store : HasPrefix(k) /\ k # batchKey}

\* C8 as claimed: once every dispatch has settled, the store holds no entry
\* of this engine under a key other than the active batchKey.
C8_AsClaimed ==
    (phase = "ready" /\ options.durableStore /\ inflight = {}) =>
        Orphans = {}

\* C8 amended: an entry under a key other than the active batchKey is
\* empty, or is under the key of a batch in flight, or under the key of a
\* batch whose entry nothing removed (its accept failed, or the removal
\* did).
C8_OrphansAccountedFor ==
    (phase = "ready" /\ options.durableStore) =>
        \A k \in Orphans :
            \/ store[k] = JSONstringify(<<>>)
            \/ \E call \in inflight : call.key = k
            \/ k \in retained

\* every dispatch has settled and the entry of a failed batch is still there
C8_Witness ==
    /\ phase = "ready"
    /\ inflight = {}
    /\ \E k \in Orphans : k \in retained /\ store[k] # JSONstringify(<<>>)

\* ----------------------------------------------------------------- C9
\* C9 as claimed: a flush after stopCycle still forces a cycle: a buffer
\* that is not empty is handed to the sink and the buffer becomes empty.
C9_AsClaimed ==
    (phase = "ready" /\ ~shouldCycleContinue /\ batchedEvents # <<>>) =>
        \A sinkThrows \in SinkThrows : \A e \in Started :
            LET f == flush(e, sinkThrows)
            IN  f.batches = <<batchedEvents>> /\ f.batchedEvents = <<>>

\* C9 amended: a flush after stopCycle forces no cycle: nothing is handed
\* to the sink and the buffer, its key and the store stay as they are.
C9_FlushAfterStopKeepsBuffer ==
    (phase = "ready" /\ ~shouldCycleContinue) =>
        \A sinkThrows \in SinkThrows : \A e \in Started :
            LET f == flush(e, sinkThrows)
            IN  /\ f.batches = <<>>
                /\ f.batchedEvents = batchedEvents
                /\ f.inflight = inflight
                /\ f.batchKey = batchKey
                /\ f.store = store
                /\ ~f.batchTimeout

\* the engine is halted with events in its buffer
C9_Witness ==
    phase = "ready" /\ ~shouldCycleContinue /\ batchedEvents # <<>>

\* ---------------------------------------------------------------- C10
\* C10: stopCycle twice leaves the engine as stopCycle once does, and once
\* the engine is halted no timer is pending, whatever jobs follow.
C10_StopIsFinal ==
    /\ phase = "ready" => stopCycle(stopCycle(Engine)) = stopCycle(Engine)
    /\ ~shouldCycleContinue => ~batchTimeout /\ ~ENABLED TimerFire

\* an engine with a valid period was halted and emit calls followed that
\* filled its buffer beyond maxSize
C10_Witness ==
    /\ ~shouldCycleContinue
    /\ PeriodValid
    /\ Len(batchedEvents) > options.maxSize

\* ---------------------------------------------------------------- C11
\* C11: flush() makes exactly one cycleBatch call and answers with a promise
\* that resolves when the promise of the sink's flush resolves and rejects
\* when it rejects, and that resolves when there is no inner sink; a failure
\* of the accept of the batch this cycle dispatches, raised in the call
\* included, does not change that answer.
C11_FlushSignal ==
    phase = "ready" =>
        \A sinkThrows \in SinkThrows : \A e \in Started :
        \A sinkFlush \in {"resolved", "rejected"} :
            /\ flush(e, sinkThrows).cycles = 1
            /\ flushSignal(e, sinkThrows, sinkFlush)
                  = IF innerSink THEN sinkFlush ELSE "resolved"

\* ---------------------------------------------------------------- C12
\* the period is zero, negative or NaN
PeriodDisabled == options.period \in DisabledPeriods

\* a job has handed a batch to the sink
Dispatches == ~(inflight' \subseteq inflight)

\* C12 as claimed: when the period is zero, negative or NaN no timer is ever
\* armed and a batch is handed to the sink only by an explicit flush() call.
C12_AsClaimed ==
    /\ [](PeriodDisabled => ~batchTimeout)
    /\ [][(PeriodDisabled /\ Dispatches) => Flush]_vars

\* C12 amended: when the period is zero, negative or NaN no timer is ever
\* armed, and a batch is handed to the sink only by an explicit flush() call
\* or by a cycle forced inside an emit call whose events do not fit into
\* the buffer, the emit of the rehydrated events by the constructor
\* included.
C12_FlushOrOverflowOnly ==
    /\ [](PeriodDisabled => ~batchTimeout /\ ~ENABLED TimerFire)
    /\ [][(PeriodDisabled /\ Dispatches) =>
            \/ Flush
            \/ Emit /\ Len(batchedEvents) + (nextId' - nextId)
                          > options.maxSize
            \/ Construct /\ Cardinality(StoredEvents(store))
                              > options.maxSize]_vars

\* an engine without a timer has handed over a batch of several events in a
\* flush
C12_Witness ==
    /\ PeriodDisabled
    /\ sinceCycle.run = "drained"
    /\ \E call \in inflight : Len(call.events) > 1

\* ---------------------------------------------------------------- C13
\* the engine of the scenario before its emit call: new, its buffer empty
ScenarioStart ==
    /\ phase = "ready"
    /\ options.maxSize = ScenarioMaxSize
    /\ PeriodDisabled
    /\ nextId = 1
    /\ batchedEvents = <<>>
    /\ inflight = {}

\* the engine a caller goes on with after a job
AfterJob(e) == [e EXCEPT !.threw = FALSE, !.cycles = 0, !.batches = <<>>]

\* C13 as claimed: with maxSize = 3, no timer and an empty buffer,
\* emit([e1,...,e5]) makes two forced cycles inside the call; the batches
\* handed to the sink are [e1,e2,e3] and, by the flush() that follows,
\* [e4,e5].
C13_AsClaimed ==
    ScenarioStart =>
        \A ticks \in SUBSET (1..2) : \A throwAt \in Throws(2) :
        \A sinkThrows \in SinkThrows :
            LET events == FreshEvents(1, ScenarioEvents)
                e == emit(Engine, events, ticks, throwAt)
                f == flush(AfterJob(e), sinkThrows)
            IN  /\ e.cycles = 2
                /\ e.batches = <<slice(events, 0, ScenarioMaxSize)>>
                /\ f.batches =
                      <<slice(events, ScenarioMaxSize, ScenarioEvents)>>

\* C13 amended: the emit call makes one forced cycle, which hands the sink
\* [e1,e2,e3]; [e4,e5] stay in the buffer and are handed over by the flush()
\* that follows. When the sink raises in the forced cycle, emit raises,
\* e4 and e5 are not buffered and the flush hands over nothing.
C13_OneForcedCycle ==
    ScenarioStart =>
        \A ticks \in SUBSET (1..2) : \A throwAt \in Throws(2) :
        \A sinkThrows \in SinkThrows :
            LET events == FreshEvents(1, ScenarioEvents)
                rest == slice(events, ScenarioMaxSize, ScenarioEvents)
                e == emit(Engine, events, ticks, throwAt)
                f == flush(AfterJob(e), sinkThrows)
            IN  /\ e.cycles = 1
                /\ e.batches = <<slice(events, 0, ScenarioMaxSize)>>
                /\ e.threw = (throwAt = 1)
                /\ IF e.threw
                   THEN e.batchedEvents = <<>> /\ f.batches = <<>>
                   ELSE /\ e.batchedEvents = rest
                        /\ f.batches = <<rest>>
                        /\ f.batchedEvents = <<>>

\* the emit call and the flush were made: both batches are in flight
C13_Witness ==
    /\ options.maxSize = ScenarioMaxSize
    /\ PeriodDisabled
    /\ nextId = 1 + ScenarioEvents
    /\ batchedEvents = <<>>
    /\ {call.events : call \in inflight}
          = {FreshEvents(1, ScenarioMaxSize),
             FreshEvents(1 + ScenarioMaxSize,
                         ScenarioEvents - ScenarioMaxSize)}

\* ---------------------------------------------------------------- C14
\* C14: with a durable store, between jobs, the entry under the current
\* batchKey holds the serialized contents of a buffer that is not empty.
C14_BufferMirrored ==
    (phase = "ready" /\ options.durableStore /\ batchedEvents # <<>>) =>
        /\ batchKey \in DOMAIN store
        /\ store[batchKey] = JSONstringify(batchedEvents)

\* ---------------------------------------------------------------- C15
\* C15: a cycle gives the buffer a batchKey that differs from the key it
\* replaces, also when the clock has not moved since that key was made (as
\* between the cycles forced inside one emit call), and so the removal of
\* the key of an accepted batch leaves the entry of the active buffer in
\* the store.
C15_FreshKeyPerCycle ==
    (phase = "ready" /\ shouldCycleContinue) =>
        /\ \A sinkThrows \in SinkThrows :
              LET e == cycleBatch(Engine, sinkThrows)
              IN  ~e.threw => e.batchKey # batchKey
        /\ \A call \in inflight :
              batchKey \in DOMAIN store =>
                 batchKey \in DOMAIN settle(Engine, call, TRUE, FALSE).store

\* ---------------------------------------------------------------- C16
\* C16: between jobs, once the constructor has returned, one timer is
\* pending when the period is a positive number and stopCycle was not
\* called, and none is otherwise.
C16_OneTimerWhileRunning ==
    phase = "ready" =>
        batchTimeout = (~PeriodDisabled /\ shouldCycleContinue)

\* ---------------------------------------------------------------- C17
\* C17: whatever maxSize the options carry and whatever state the engine is
\* in, an emit call returns: it does not loop for ever and it raises no
\* error.
C17_EmitReturns ==
    phase = "ready" =>
        \A n \in Inputs : \A ticks \in Ticks(n) : \A throwAt \in Throws(n) :
            LET e == emit(Engine, FreshEvents(nextId, n), ticks, throwAt)
            IN  ~e.hangs /\ ~e.threw

\* ---------------------------------------------------------------- C18
\* how often an event waits for delivery: in the buffer or in a batch in
\* flight
Pending(e, ev) ==
    Count(e.batchedEvents, ev)
       + Cardinality({call \in e.inflight : ev \in Range(call.events)})

\* the events created so far, and those an emit of n events adds
Emitted == 1..(nextId - 1)

\* C18: every emitted event is in exactly one place: the buffer, a batch in
\* flight, or a batch the sink accepted. Between jobs no event waits twice,
\* and every job keeps each event where the claim has it: an emit adds its
\* events to those waiting, a cycle moves events from the buffer to a
\* batch in flight, a failed accept moves them back, and an accept that
\* succeeded takes them from those waiting for good.
C18_EachEventInOnePlace ==
    phase = "ready" =>
        /\ \A ev \in Emitted : Pending(Engine, ev) <= 1
        /\ \A n \in Inputs : \A ticks \in Ticks(n) : \A throwAt \in Throws(n) :
              LET e == emit(Engine, FreshEvents(nextId, n), ticks, throwAt)
              IN  /\ \A ev \in Emitted : Pending(e, ev) = Pending(Engine, ev)
                  /\ \A ev \in Range(FreshEvents(nextId, n)) :
                        Pending(e, ev) = 1
        /\ \A sinkThrows \in SinkThrows : \A e \in Started : \A ev \in Emitted :
              Pending(cycleBatch(e, sinkThrows), ev) = Pending(Engine, ev)
        /\ \A call \in inflight : \A removeThrows \in BOOLEAN :
           \A ev \in Emitted :
              /\ Pending(settle(Engine, call, FALSE, FALSE), ev)
                    = Pending(Engine, ev)
              /\ Pending(settle(Engine, call, TRUE, removeThrows), ev)
                    = Pending(Engine, ev)
                         - (IF ev \in Range(call.events) THEN 1 ELSE 0)

\* ---------------------------------------------------------------- C19
\* C19: the events of a batch the sink accepted are not put back into the
\* buffer, also when the removal of the entry of the batch fails: the
\* settlement of an accepted batch leaves the buffer as it is.
C19_AcceptedNotRequeued ==
    phase = "ready" =>
        \A call \in inflight :
        \A removeThrows \in (IF options.durableStore THEN BOOLEAN
                              ELSE {FALSE}) :
            settle(Engine, call, TRUE, removeThrows).batchedEvents
               = batchedEvents

\* ---------------------------------------------------------------- C20
\* C20: between jobs the buffer holds at most maxSize events.
C20_BufferWithinMaxSize ==
    phase = "ready" => Len(batchedEvents) <= options.maxSize

====
